---- MODULE Spec2Model ----
(***************************************************************************)
(* Model of src/index.js: the verification-code relay bot.                 *)
(*                                                                         *)
(* State: the three process-wide maps (userPhones, submissions,            *)
(* scheduledDeletions), the runtime's set of live timers, the clock, and   *)
(* the handlers that are suspended on an await.  Every action is one       *)
(* synchronous segment of a handler or one timer callback: the event loop  *)
(* runs such a segment to completion before anything else runs.            *)
(***************************************************************************)
EXTENDS Integers, Sequences, FiniteSets, Bags, TLC

(***************************************************************************)
(* Bounds of the model.                                                    *)
(***************************************************************************)
MaxEvents == 3        \* environment steps in a run: updates, requests, clock advances
MaxInFlight == 2      \* handlers suspended on an await at the same time

(***************************************************************************)
(* Program constants.                                                      *)
(***************************************************************************)
ADMIN_CHAT_ID == 9
DELETE_DELAY_MS == 30 * 60 * 1000
TYPING_INTERVAL_MS == 4000

\* texts (codes, phone numbers, payloads) are tuples of one-character strings
UNKNOWN_PHONE == <<"U","n","k","n","o","w","n"," ","p","h","o","n","e">>
NULL == "null"                 \* JavaScript null / undefined
NoCode == <<"undefined">>      \* request body without a code field
NoTgUser == [absent |-> TRUE]  \* request body without a tgUser field

(***************************************************************************)
(* Inputs.                                                                 *)
(***************************************************************************)
PHONE_PLUS == <<"+","6","3","9","1","7","1","2","3","4","5","6","7">>
PHONE_DIGITS == <<"0","9","1","7","1","2","3","4","5","6","7">>
TEXT_CODE == <<"1","2","3","4","5","6">>
Texts == {PHONE_PLUS, PHONE_DIGITS, TEXT_CODE}

CODE_A == <<"4","4","5","5","6","6">>
CODE_B == <<"7","7","8","8","9","9">>
Codes == {NoCode, <<>>, CODE_A, CODE_B}

FromIds == {1}                 \* ctx.from.id / ctx.chat.id of chat users
TgUsers == {NoTgUser,
            [id |-> 0, username |-> NULL, first_name |-> NULL],
            [id |-> 1, username |-> "ana", first_name |-> "Ana"]}
MessageIds == {101}            \* message_id values the transport returns
FORGED_ID == "nosuch_0"        \* callback data naming no submission
PAYLOAD_VERIFY == <<"v","e","r","i","f","y","_","7">>
Payloads == {<<>>, PAYLOAD_VERIFY}

VARIABLES
  userPhones,          \* Map userId -> contact string
  submissions,         \* Map submissionId -> record
  scheduledDeletions,  \* Map key -> timer id
  timers,              \* the runtime's live timers: id -> timer
  nextTimerId,         \* the next timer object the runtime creates
  now,                 \* the clock (Date.now(), ms)
  events,              \* environment steps taken so far
  inflight,            \* handlers suspended on an await
  adminNotifs,         \* reviewer notifications whose send was initiated: id, code
  decided,             \* submission ids a decision handler has found
  loopStopped,         \* users whose loop a decision stopped since their last intake
  ephemeral,           \* deletion keys scheduled and not yet requested for deletion
  superseded,          \* timers replaced under their key: id -> key
  failed,              \* keys with a scheduled side effect whose transport call failed
  delivered,           \* submission ids of notifications whose send resolved
  res                  \* HTTP status the segment that ran last answered, 0 if none

vars == <<userPhones, submissions, scheduledDeletions, timers, nextTimerId,
          now, events, inflight, adminNotifs, decided, loopStopped,
          ephemeral, superseded, failed, delivered, res>>

(***************************************************************************)
(* JavaScript Map.                                                         *)
(***************************************************************************)
MapHas(m, k) == k \in DOMAIN m
\* variant: an existing entry is kept
MapSet_keepExisting(m, k, v) ==
  [x \in DOMAIN m \cup {k} |-> IF x \in DOMAIN m THEN m[x] ELSE v]
MapSet(m, k, v) == [x \in DOMAIN m \cup {k} |-> IF x = k THEN v ELSE m[x]]
MapDelete(m, k) == [x \in DOMAIN m \ {k} |-> m[x]]
EmptyMap == [x \in {} |-> 0]

(***************************************************************************)
(* String helpers on texts.                                                *)
(***************************************************************************)
IsSpace(c) == c = " "
IsDigit(c) == c \in {"0","1","2","3","4","5","6","7","8","9"}

RECURSIVE TrimStart(_)
TrimStart(s) == IF s # <<>> /\ IsSpace(Head(s)) THEN TrimStart(Tail(s)) ELSE s

RECURSIVE TrimEnd(_)
TrimEnd(s) ==
  IF s # <<>> /\ IsSpace(s[Len(s)]) THEN TrimEnd(SubSeq(s, 1, Len(s) - 1)) ELSE s

Trim(s) == TrimEnd(TrimStart(s))

StartsWith(s, p) == Len(s) >= Len(p) /\ SubSeq(s, 1, Len(p)) = p

\* text.replace(/\D/g, "")
StripNonDigits(s) == SelectSeq(s, IsDigit)

VERIFY_PREFIX == <<"v","e","r","i","f","y","_">>

\* variant: ten digits are not enough
IsPhone_moreThanTen(text) ==
  StartsWith(text, <<"+">>) \/ Len(StripNonDigits(text)) > 10

IsPhone(text) == StartsWith(text, <<"+">>) \/ Len(StripNonDigits(text)) >= 10

\* variant: only an absent field counts as missing
CodeMissing_absentOnly(code) == code = NoCode

\* !code
CodeMissing(code) == code = NoCode \/ code = <<>>

\* tgUser?.id ? String(tgUser.id) : null
UserIdOf(tgUser) ==
  IF tgUser # NoTgUser /\ tgUser.id # 0 THEN ToString(tgUser.id) ELSE NULL

\* tgUser?.username || "",  tgUser?.first_name || ""
NameOr(tgUser, field) ==
  IF tgUser # NoTgUser /\ tgUser[field] # NULL /\ tgUser[field] # ""
  THEN tgUser[field] ELSE ""

\* variant: the directory is never consulted
PhoneFor_noLookup(phones, userId) == UNKNOWN_PHONE

\* userId ? userPhones.get(userId) || "Unknown phone" : "Unknown phone"
PhoneFor(phones, userId) ==
  IF userId # NULL /\ MapHas(phones, userId) /\ phones[userId] # <<>>
  THEN phones[userId] ELSE UNKNOWN_PHONE

(***************************************************************************)
(* Registry keys and submission ids.                                       *)
(***************************************************************************)
DeleteKey(chatId, messageId) == ToString(chatId) \o ":" \o ToString(messageId)
TypingKey(userId) == "typing_" \o userId
SubmissionId(userId, t) ==
  (IF userId # NULL THEN userId ELSE "unknown") \o "_" \o ToString(t)

(***************************************************************************)
(* The timer registry.  R is the triple the runtime and the registry map   *)
(* make up: [reg, timers, next].                                           *)
(***************************************************************************)
Registry == [reg |-> scheduledDeletions, timers |-> timers, next |-> nextTimerId]

\* clearTimeout / clearInterval: the timer leaves the runtime's live set
ClearTimer(ts, id) == [t \in DOMAIN ts \ {id} |-> ts[t]]

\* variant: the previous timeout under the key is not cleared
scheduleDelete_noClear(R, chatId, messageId) ==
  LET key == DeleteKey(chatId, messageId)
      timeoutId == R.next
  IN [reg |-> MapSet(R.reg, key, timeoutId),
      timers |-> MapSet(R.timers, timeoutId,
                        [kind |-> "timeout", key |-> key, chatId |-> chatId,
                         messageId |-> messageId, userId |-> NULL,
                         setAt |-> now, due |-> now + DELETE_DELAY_MS]),
      next |-> R.next + 1]

\* variant: the timeout is armed with no delay
scheduleDelete_noDelay(R, chatId, messageId) ==
  LET key == DeleteKey(chatId, messageId)
      cleared == IF MapHas(R.reg, key) THEN ClearTimer(R.timers, R.reg[key])
                 ELSE R.timers
      timeoutId == R.next
  IN [reg |-> MapSet(R.reg, key, timeoutId),
      timers |-> MapSet(cleared, timeoutId,
                        [kind |-> "timeout", key |-> key, chatId |-> chatId,
                         messageId |-> messageId, userId |-> NULL,
                         setAt |-> now, due |-> now]),
      next |-> R.next + 1]

scheduleDelete(R, chatId, messageId) ==
  LET key == DeleteKey(chatId, messageId)
      cleared == IF MapHas(R.reg, key) THEN ClearTimer(R.timers, R.reg[key])
                 ELSE R.timers
      timeoutId == R.next
  IN [reg |-> MapSet(R.reg, key, timeoutId),
      timers |-> MapSet(cleared, timeoutId,
                        [kind |-> "timeout", key |-> key, chatId |-> chatId,
                         messageId |-> messageId, userId |-> NULL,
                         setAt |-> now, due |-> now + DELETE_DELAY_MS]),
      next |-> R.next + 1]

\* variant: the key is removed but the interval is not cleared
stopTypingLoop_keepTimer(R, userId) ==
  LET key == TypingKey(userId)
  IN IF MapHas(R.reg, key)
     THEN [reg |-> MapDelete(R.reg, key), timers |-> R.timers, next |-> R.next]
     ELSE R

\* variant: every registered timer is cleared, whoever it belongs to
stopTypingLoop_clearAll(R, userId) ==
  [reg |-> EmptyMap,
   timers |-> [t \in DOMAIN R.timers \ {R.reg[k] : k \in DOMAIN R.reg}
                 |-> R.timers[t]],
   next |-> R.next]

stopTypingLoop(R, userId) ==
  LET key == TypingKey(userId)
  IN IF MapHas(R.reg, key)
     THEN [reg |-> MapDelete(R.reg, key),
           timers |-> ClearTimer(R.timers, R.reg[key]),
           next |-> R.next]
     ELSE R

\* variant: the existing loop is not stopped first
startTypingLoop_noStop(R, userId) ==
  LET intervalId == R.next
  IN [reg |-> MapSet(R.reg, TypingKey(userId), intervalId),
      timers |-> MapSet(R.timers, intervalId,
                        [kind |-> "interval", key |-> TypingKey(userId),
                         chatId |-> 0, messageId |-> 0, userId |-> userId,
                         setAt |-> now, due |-> now + TYPING_INTERVAL_MS]),
      next |-> R.next + 1]

\* the typing loop of the intake handler: stop, setInterval, register
startTypingLoop(R, userId) ==
  LET S == stopTypingLoop(R, userId)
      intervalId == S.next
  IN [reg |-> MapSet(S.reg, TypingKey(userId), intervalId),
      timers |-> MapSet(S.timers, intervalId,
                        [kind |-> "interval", key |-> TypingKey(userId),
                         chatId |-> 0, messageId |-> 0, userId |-> userId,
                         setAt |-> now, due |-> now + TYPING_INTERVAL_MS]),
      next |-> S.next + 1]

SetRegistry(R) ==
  /\ scheduledDeletions' = R.reg
  /\ timers' = R.timers
  /\ nextTimerId' = R.next

\* the timer a new registration under key replaces, if any
Replaced(key) ==
  IF MapHas(scheduledDeletions, key)
  THEN MapSet(superseded, scheduledDeletions[key], key)
  ELSE superseded

\* the suspended handlers are a bag: the order of suspension plays no part
Suspended == BagToSet(inflight)
Suspend(task) == inflight (+) SetToBag({task})
Resume(task) == inflight (-) SetToBag({task})
\* a suspended handler: the call it awaits (h), the chat and the text of
\* that call, and the branch of the handler it is in
Task(h, chatId, text, found) ==
  [h |-> h, chatId |-> chatId, text |-> text, found |-> found, data |-> ""]
\* the intake suspended on sendMessage; data is the id in the callback_data
\* of the buttons of the message being sent
IntakeTask(submissionId) ==
  [Task("intake", ADMIN_CHAT_ID, "New verification request", TRUE)
     EXCEPT !.data = submissionId]

Init ==
  /\ userPhones = EmptyMap
  /\ submissions = EmptyMap
  /\ scheduledDeletions = EmptyMap
  /\ timers = EmptyMap
  /\ nextTimerId = 1
  /\ now = 0
  /\ events = 0
  /\ inflight = EmptyBag
  /\ adminNotifs = {}
  /\ decided = {}
  /\ loopStopped = {}
  /\ ephemeral = {}
  /\ superseded = EmptyMap
  /\ failed = {}
  /\ delivered = {}
  /\ res = 0

(***************************************************************************)
(* replyAndAutoDelete: ctx.reply is awaited; scheduleDelete runs when the  *)
(* send has resolved.                                                      *)
(***************************************************************************)
\* first half: the send is initiated and the handler suspends
replyAndAutoDelete(chatId, text) == Task("reply", chatId, text, TRUE)

\* second half: the send resolved with messageId, or rejected
ReplyDone(task, ok, messageId) ==
  LET key == DeleteKey(task.chatId, messageId)
  IN /\ task \in Suspended
     /\ task.h = "reply"
     /\ inflight' = Resume(task)
     /\ IF ok
        THEN /\ SetRegistry(scheduleDelete(Registry, task.chatId, messageId))
             /\ ephemeral' = ephemeral \cup {key}
             /\ superseded' = Replaced(key)
        ELSE UNCHANGED <<scheduledDeletions, timers, nextTimerId, ephemeral,
                         superseded>>
     /\ res' = 0
     /\ UNCHANGED <<userPhones, submissions, now, events,
                    adminNotifs, decided, loopStopped, failed, delivered>>

(***************************************************************************)
(* bot.start                                                               *)
(***************************************************************************)
BotStart(fromId, payload) ==
  /\ events < MaxEvents
  /\ events' = events + 1
  /\ BagCardinality(inflight) < MaxInFlight
  /\ inflight' = Suspend(replyAndAutoDelete(fromId,
                    IF payload # <<>> /\ StartsWith(payload, VERIFY_PREFIX)
                    THEN "Verification code" ELSE "Welcome"))
  /\ res' = 0
  /\ UNCHANGED <<userPhones, submissions, scheduledDeletions, timers,
                 nextTimerId, now, adminNotifs, decided,
                 loopStopped, ephemeral, superseded,
                 failed, delivered>>

(***************************************************************************)
(* bot.on("text")                                                          *)
(***************************************************************************)
BotText(fromId, rawText) ==
  LET text == Trim(rawText)
      userId == ToString(fromId)
      isPhone == IsPhone(text)
  IN /\ events < MaxEvents
     /\ events' = events + 1
     /\ BagCardinality(inflight) < MaxInFlight
     /\ userPhones' = IF isPhone THEN MapSet(userPhones, userId, text)
                      ELSE userPhones
     /\ inflight' = Suspend(replyAndAutoDelete(fromId,
                       IF isPhone THEN "Phone saved" ELSE "Code received"))
     /\ res' = 0
     /\ UNCHANGED <<submissions, scheduledDeletions, timers, nextTimerId, now,
                    adminNotifs, decided, loopStopped, ephemeral, superseded,
                 failed, delivered>>

(***************************************************************************)
(* bot.action(/approve:(.+)/) and bot.action(/reject:(.+)/)                *)
(***************************************************************************)
\* variant: no return after the acknowledgment, the handler goes on to
\* the confirmation
DecisionNotFound_noReturn(action, submissionId) ==
  /\ inflight' = Suspend(Task("ack", ADMIN_CHAT_ID, "Not found or expired",
                              TRUE))
  /\ res' = 0
  /\ UNCHANGED <<userPhones, submissions, scheduledDeletions, timers,
                 nextTimerId, now, adminNotifs, decided,
                 loopStopped, ephemeral, superseded,
                 failed, delivered>>

\* if (!data): answerCbQuery("Not found or expired") is initiated; return
DecisionNotFound(action, submissionId) ==
  /\ inflight' = Suspend(Task("ack", ADMIN_CHAT_ID, "Not found or expired",
                              FALSE))
  /\ res' = 0
  /\ UNCHANGED <<userPhones, submissions, scheduledDeletions, timers,
                 nextTimerId, now, adminNotifs, decided,
                 loopStopped, ephemeral, superseded,
                 failed, delivered>>

\* variant: the decision consumes the record
DecisionFound_consume(action, submissionId) ==
  LET data == submissions[submissionId]
      userId == data.userId
  IN /\ SetRegistry(stopTypingLoop(Registry, userId))
     /\ submissions' = MapDelete(submissions, submissionId)
     /\ decided' = decided \cup {submissionId}
     /\ loopStopped' = IF userId # NULL THEN loopStopped \cup {userId}
                       ELSE loopStopped
     /\ inflight' = Suspend(Task("ack", ADMIN_CHAT_ID,
                       IF action = "approve" THEN "Approved" ELSE "Rejected",
                       TRUE))
     /\ res' = 0
     /\ UNCHANGED <<userPhones, now, adminNotifs, ephemeral, superseded,
                    failed, delivered>>

\* data found: stopTypingLoop(data.userId), then answerCbQuery is initiated
DecisionFound(action, submissionId) ==
  LET data == submissions[submissionId]
      userId == data.userId
  IN /\ SetRegistry(stopTypingLoop(Registry, userId))
     /\ decided' = decided \cup {submissionId}
     /\ loopStopped' = IF userId # NULL THEN loopStopped \cup {userId}
                       ELSE loopStopped
     /\ inflight' = Suspend(Task("ack", ADMIN_CHAT_ID,
                       IF action = "approve" THEN "Approved" ELSE "Rejected",
                       TRUE))
     /\ res' = 0
     /\ UNCHANGED <<userPhones, submissions, now, adminNotifs,
                    ephemeral, superseded,
                 failed, delivered>>

\* the handler up to its first await
Decision(action, submissionId) ==
  /\ events < MaxEvents
  /\ events' = events + 1
  /\ BagCardinality(inflight) < MaxInFlight
  /\ IF MapHas(submissions, submissionId)
     THEN DecisionFound(action, submissionId)
     ELSE DecisionNotFound(action, submissionId)

\* answerCbQuery settled: return (not found), throw (rejected), or go on
\* to replyAndAutoDelete
AckDone(task, ok) ==
  /\ task \in Suspended
  /\ task.h = "ack"
  /\ inflight' = IF task.found /\ ok
                 THEN Resume(task) (+)
                      SetToBag({replyAndAutoDelete(task.chatId,
                                   IF task.text = "Approved"
                                   THEN "Approved submission"
                                   ELSE "Rejected submission")})
                 ELSE Resume(task)
  /\ res' = 0
  /\ UNCHANGED <<userPhones, submissions, scheduledDeletions, timers,
                 nextTimerId, now, events, adminNotifs, decided,
                 loopStopped, ephemeral, superseded,
                 failed, delivered>>

(***************************************************************************)
(* app.post("/api/log-code")                                               *)
(***************************************************************************)
\* if (!code) return res.status(400)
LogCodeRejected(code, tgUser) ==
  /\ res' = 400
  /\ UNCHANGED <<userPhones, submissions, scheduledDeletions, timers,
                 nextTimerId, now, inflight, adminNotifs,
                 decided, loopStopped, ephemeral, superseded,
                 failed, delivered>>

\* variant: sendMessage is initiated first; the record and the loop are
\* left for after the await
LogCodeAccepted_sendFirst(code, tgUser) ==
  LET userId == UserIdOf(tgUser)
      submissionId == SubmissionId(userId, now)
  IN /\ BagCardinality(inflight) < MaxInFlight
     /\ adminNotifs' = adminNotifs \cup
           {[submissionId |-> submissionId, code |-> code]}
     /\ inflight' = Suspend(IntakeTask(submissionId))
     /\ res' = 0
     /\ UNCHANGED <<userPhones, submissions, scheduledDeletions, timers,
                    nextTimerId, now, decided, loopStopped, ephemeral,
                    superseded, failed, delivered>>

\* the record is stored, the typing loop installed, sendMessage initiated
LogCodeAccepted(code, tgUser) ==
  LET userId == UserIdOf(tgUser)
      username == NameOr(tgUser, "username")
      firstName == NameOr(tgUser, "first_name")
      telegramPhone == PhoneFor(userPhones, userId)
      submissionId == SubmissionId(userId, now)
      record == [userId |-> userId, code |-> code,
                 telegramPhone |-> telegramPhone, username |-> username,
                 firstName |-> firstName]
  IN /\ BagCardinality(inflight) < MaxInFlight
     /\ submissions' = MapSet(submissions, submissionId, record)
     /\ IF userId # NULL
        THEN /\ SetRegistry(startTypingLoop(Registry, userId))
             /\ superseded' = Replaced(TypingKey(userId))
        ELSE UNCHANGED <<scheduledDeletions, timers, nextTimerId, superseded>>
     /\ adminNotifs' = adminNotifs \cup
           {[submissionId |-> submissionId, code |-> code]}
     /\ inflight' = Suspend(IntakeTask(submissionId))
     /\ decided' = decided \ {submissionId}
     /\ loopStopped' = loopStopped \ {userId}
     /\ res' = 0
     /\ UNCHANGED <<userPhones, now, ephemeral, failed, delivered>>

\* the handler up to the await of bot.telegram.sendMessage
LogCode(code, tgUser) ==
  /\ events < MaxEvents
  /\ events' = events + 1
  /\ IF CodeMissing(code)
     THEN LogCodeRejected(code, tgUser)
     ELSE LogCodeAccepted(code, tgUser)

\* variant: a failed send is swallowed and the caller gets 200
LogCodeDone_swallow(task, ok) ==
  /\ task \in Suspended
  /\ task.h = "intake"
  /\ inflight' = Resume(task)
  /\ delivered' = IF ok THEN delivered \cup {task.data} ELSE delivered
  /\ res' = 200
  /\ UNCHANGED <<userPhones, submissions, scheduledDeletions, timers,
                 nextTimerId, now, events, adminNotifs, decided,
                 loopStopped, ephemeral, superseded,
                 failed>>

\* sendMessage settled: res.json({ ok: true }), or the catch block
LogCodeDone(task, ok) ==
  /\ task \in Suspended
  /\ task.h = "intake"
  /\ inflight' = Resume(task)
  /\ delivered' = IF ok THEN delivered \cup {task.data} ELSE delivered
  /\ res' = IF ok THEN 200 ELSE 500
  /\ UNCHANGED <<userPhones, submissions, scheduledDeletions, timers,
                 nextTimerId, now, events, adminNotifs, decided,
                 loopStopped, ephemeral, superseded,
                 failed>>

(***************************************************************************)
(* Timer callbacks and the clock.                                          *)
(***************************************************************************)
\* the runtime runs a timer's callback only when it is live and due
TimerDue(id) == id \in DOMAIN timers /\ now >= timers[id].due

\* variant: the callback leaves its key in the registry
DeleteFire_keepKey(id, ok) ==
  /\ TimerDue(id)
  /\ timers[id].kind = "timeout"
  /\ res' = 0
  /\ timers' = ClearTimer(timers, id)
  /\ ephemeral' = ephemeral \ {timers[id].key}
  /\ failed' = IF ok THEN failed ELSE failed \cup {timers[id].key}
  /\ UNCHANGED <<userPhones, submissions, scheduledDeletions, nextTimerId,
                 now, events, inflight, adminNotifs, decided, loopStopped,
                 superseded, delivered>>

\* the setTimeout callback of scheduleDelete; ok is the transport's outcome,
\* which .catch(() => {}) discards
DeleteFire(id, ok) ==
  /\ TimerDue(id)
  /\ timers[id].kind = "timeout"
  /\ res' = 0
  /\ scheduledDeletions' = MapDelete(scheduledDeletions, timers[id].key)
  /\ timers' = ClearTimer(timers, id)
  /\ ephemeral' = ephemeral \ {timers[id].key}
  /\ failed' = IF ok THEN failed ELSE failed \cup {timers[id].key}
  /\ UNCHANGED <<userPhones, submissions, nextTimerId, now, events,
                 inflight, adminNotifs, decided, loopStopped, superseded, delivered>>

\* variant: a failed presence signal ends the loop
TypingTick_stopOnFailure(id, ok) ==
  /\ TimerDue(id)
  /\ timers[id].kind = "interval"
  /\ res' = 0
  /\ timers' = IF ok THEN [timers EXCEPT ![id].setAt = now,
                                         ![id].due = now + TYPING_INTERVAL_MS]
                ELSE ClearTimer(timers, id)
  /\ scheduledDeletions' = IF ok THEN scheduledDeletions
                            ELSE MapDelete(scheduledDeletions, timers[id].key)
  /\ failed' = IF ok THEN failed ELSE failed \cup {timers[id].key}
  /\ UNCHANGED <<userPhones, submissions, nextTimerId,
                 now, events, inflight, adminNotifs, decided,
                 loopStopped, ephemeral, superseded, delivered>>

\* the setInterval callback of the typing loop; the runtime re-arms it.
\* ok is the outcome of sendChatAction, which .catch(() => {}) discards
TypingTick(id, ok) ==
  /\ TimerDue(id)
  /\ timers[id].kind = "interval"
  /\ res' = 0
  /\ timers' = [timers EXCEPT ![id].setAt = now,
                              ![id].due = now + TYPING_INTERVAL_MS]
  /\ failed' = IF ok THEN failed ELSE failed \cup {timers[id].key}
  /\ UNCHANGED <<userPhones, submissions, scheduledDeletions, nextTimerId,
                 now, events, inflight, adminNotifs, decided,
                 loopStopped, ephemeral, superseded, delivered>>

Advance(d) ==
  /\ events < MaxEvents
  /\ events' = events + 1
  /\ now' = now + d
  /\ res' = 0
  /\ UNCHANGED <<userPhones, submissions, scheduledDeletions, timers,
                 nextTimerId, inflight, adminNotifs, decided,
                 loopStopped, ephemeral, superseded,
                 failed, delivered>>

\* the callback data the reviewer's client can send: the ids of the
\* notifications that were sent or whose send is under way, or anything else
ClickableIds ==
  delivered \cup {t.data : t \in {x \in Suspended : x.h = "intake"}}
            \cup {FORGED_ID}

Next ==
  \/ \E f \in FromIds, p \in Payloads : BotStart(f, p)
  \/ \E f \in FromIds, t \in Texts : BotText(f, t)
  \/ \E a \in {"approve", "reject"}, s \in ClickableIds : Decision(a, s)
  \/ \E t \in Suspended, ok \in BOOLEAN : AckDone(t, ok)
  \/ \E t \in Suspended, ok \in BOOLEAN, m \in MessageIds : ReplyDone(t, ok, m)
  \/ \E c \in Codes, u \in TgUsers : LogCode(c, u)
  \/ \E t \in Suspended, ok \in BOOLEAN : LogCodeDone(t, ok)
  \/ \E id \in DOMAIN timers, ok \in BOOLEAN : DeleteFire(id, ok)
  \/ \E id \in DOMAIN timers, ok \in BOOLEAN : TypingTick(id, ok)
  \/ \E d \in {TYPING_INTERVAL_MS, DELETE_DELAY_MS} : Advance(d)

Spec == Init /\ [][Next]_vars

(***************************************************************************)
(* The text handler alone, on texts made of optional surrounding spaces,   *)
(* an optional leading "+", and a run of digits with or without            *)
(* separators.                                                             *)
(***************************************************************************)
DigitCounts == {0, 6, 9, 10, 11}

RECURSIVE Repeat(_, _)
Repeat(s, n) == IF n = 0 THEN <<>> ELSE s \o Repeat(s, n - 1)

GenText(lead, plus, nd, sep, trail) ==
  Repeat(<<" ">>, lead)
    \o (IF plus THEN <<"+">> ELSE <<>>)
    \o Repeat(IF sep THEN <<"7", "-">> ELSE <<"7">>, nd)
    \o (IF trail = 0 THEN <<>> ELSE <<"x">> \o Repeat(<<" ">>, trail))

GenTexts ==
  {GenText(lead, plus, nd, sep, trail) :
     lead \in 0..1, plus \in BOOLEAN, nd \in DigitCounts, sep \in BOOLEAN,
     trail \in 0..1}

NextText ==
  \/ \E f \in FromIds, t \in GenTexts : BotText(f, t)
  \/ \E t \in Suspended, ok \in BOOLEAN, m \in MessageIds : ReplyDone(t, ok, m)

SpecText == Init /\ [][NextText]_vars

(***************************************************************************)
(* Runs that start when one intake of user 1 has been stored, notified and *)
(* answered: the state LogCode(CODE_A, user 1) and LogCodeDone(ok) leave.  *)
(***************************************************************************)
PENDING_USER == [id |-> 1, username |-> "ana", first_name |-> "Ana"]

InitPending ==
  LET userId == UserIdOf(PENDING_USER)
      submissionId == SubmissionId(userId, 0)
      R == startTypingLoop([reg |-> EmptyMap, timers |-> EmptyMap, next |-> 1],
                           userId)
  IN /\ now = 0
     /\ userPhones = EmptyMap
     /\ submissions =
          MapSet(EmptyMap, submissionId,
                 [userId |-> userId, code |-> CODE_A,
                  telegramPhone |-> PhoneFor(EmptyMap, userId),
                  username |-> NameOr(PENDING_USER, "username"),
                  firstName |-> NameOr(PENDING_USER, "first_name")])
     /\ scheduledDeletions = R.reg
     /\ timers = R.timers
     /\ nextTimerId = R.next
     /\ events = 0
     /\ inflight = EmptyBag
     /\ adminNotifs = {[submissionId |-> submissionId, code |-> CODE_A]}
     /\ decided = {}
     /\ loopStopped = {}
     /\ ephemeral = {}
     /\ superseded = EmptyMap
     /\ failed = {}
     /\ delivered = {submissionId}
     /\ res = 200

SpecPending == InitPending /\ [][Next]_vars

(***************************************************************************)
(* Runs with a reviewer who decides every notification that reaches them,  *)
(* a transport whose calls settle, and a runtime that runs due timers.     *)
(***************************************************************************)
\* the ids of notifications the reviewer has and has not decided
Undecided == (ClickableIds \ {FORGED_ID}) \ decided

\* the reviewer's decision on a notification they have not decided yet
Review(action, submissionId) ==
  /\ submissionId \in Undecided
  /\ BagCardinality(inflight) < MaxInFlight
  /\ events' = events
  /\ IF MapHas(submissions, submissionId)
     THEN DecisionFound(action, submissionId)
     ELSE DecisionNotFound(action, submissionId)

Settle ==
  \/ \E t \in Suspended, ok \in BOOLEAN : AckDone(t, ok)
  \/ \E t \in Suspended, ok \in BOOLEAN, m \in MessageIds : ReplyDone(t, ok, m)
  \/ \E t \in Suspended, ok \in BOOLEAN : LogCodeDone(t, ok)

Fire ==
  \/ \E id \in DOMAIN timers, ok \in BOOLEAN : DeleteFire(id, ok)
  \/ \E id \in DOMAIN timers, ok \in BOOLEAN : TypingTick(id, ok)

NextLive ==
  \/ Next
  \/ \E a \in {"approve", "reject"}, s \in Undecided : Review(a, s)

SpecLive ==
  /\ Init
  /\ [][NextLive]_vars
  /\ WF_vars(Settle)
  /\ WF_vars(Fire)
  /\ WF_vars(\E a \in {"approve", "reject"}, s \in Undecided : Review(a, s))

(***************************************************************************)
(* Properties.                                                             *)
(***************************************************************************)
Actions == {"approve", "reject"}
NOT_FOUND == "Not found or expired"
\* the live timers registered or left over under a key
LiveWithKey(key) == {id \in DOMAIN timers : timers[id].key = key}
\* the live presence loops of a user
LoopsOf(userId) ==
  {id \in DOMAIN timers :
     timers[id].kind = "interval" /\ timers[id].userId = userId}
\* users with a submission and no decision since their last intake
PendingUsers ==
  {submissions[s].userId : s \in DOMAIN submissions} \ ({NULL} \cup loopStopped)
\* the deletion keys the model's chats and message ids make up
DeleteKeys ==
  {DeleteKey(c, m) : c \in FromIds \cup {ADMIN_CHAT_ID}, m \in MessageIds}
Stores == <<userPhones, submissions, scheduledDeletions, timers, nextTimerId>>

\* C1: every registry key has at most one live scheduled action, and a user
\* with intakes and no decision since has exactly one live presence loop.
C1_OneLiveActionPerKey ==
  /\ \A a, b \in DOMAIN timers : timers[a].key = timers[b].key => a = b
  /\ \A u \in PendingUsers : Cardinality(LoopsOf(u)) = 1

\* a second intake of the same user replaced the first loop: one loop is live
C1_Witness ==
  \E id \in DOMAIN superseded : \E u \in PendingUsers :
     /\ superseded[id] = TypingKey(u)
     /\ Cardinality(LoopsOf(u)) = 1

\* C2: a timer that was replaced under its key never fires afterwards:
\* no deletion request and no presence tick comes from a superseded timer.
C2_SupersededNeverFires ==
  [][\A id \in DOMAIN timers, ok \in BOOLEAN :
        (DeleteFire(id, ok) \/ TypingTick(id, ok))
           => id \notin DOMAIN superseded]_vars

\* a deletion was re-scheduled under its key and the replacement has fired
C2_Witness ==
  \E id \in DOMAIN superseded :
     /\ superseded[id] \in DeleteKeys
     /\ ~MapHas(scheduledDeletions, superseded[id])
     /\ LiveWithKey(superseded[id]) = {}
     /\ now >= DELETE_DELAY_MS

\* C3: once a decision has found a submission, its user has no presence loop
\* and no presence tick of that user fires until a later intake of the user.
C3_NoTickAfterDecision ==
  /\ [](\A u \in loopStopped :
           LoopsOf(u) = {} /\ ~MapHas(scheduledDeletions, TypingKey(u)))
  /\ [][\A id \in DOMAIN timers, ok \in BOOLEAN :
           TypingTick(id, ok) => timers[id].userId \notin loopStopped]_vars

\* a decision stopped a loop and a tick period has passed without a loop
C3_Witness ==
  \E s \in decided :
     /\ submissions[s].userId \in loopStopped
     /\ LoopsOf(submissions[s].userId) = {}
     /\ now >= TYPING_INTERVAL_MS

\* C4: a decision on a submission that was already decided is answered
\* "not found" and goes no further.
C4_NoSecondDecision ==
  [][\A a \in Actions, s \in ClickableIds :
        (s \in decided /\ Decision(a, s))
           => inflight' = Suspend(Task("ack", ADMIN_CHAT_ID, NOT_FOUND, FALSE))]_vars

\* C5: an intake without a code is answered 400 and changes no store, no
\* timer, no notification and no pending send.
C5_MissingCodeNoMutation ==
  [][\A c \in {NoCode, <<>>}, u \in TgUsers :
        LogCode(c, u) => /\ res' = 400
                         /\ UNCHANGED <<Stores, inflight, adminNotifs>>]_vars

\* an intake was answered 400 while a record and a presence loop exist
C5_Witness ==
  /\ res = 400
  /\ submissions # EmptyMap
  /\ \E id \in DOMAIN timers : timers[id].kind = "interval"

\* C6: a decision on an id that is not stored only sends the "not found"
\* acknowledgment: stores, registry and timers are unchanged, and when the
\* acknowledgment has settled no confirmation is sent.
C6_NotFoundNoMutation ==
  [][/\ \A a \in Actions, s \in ClickableIds :
          (~MapHas(submissions, s) /\ Decision(a, s))
             => /\ \E t \in BagToSet(inflight') :
                      /\ t.h = "ack"
                      /\ t.text = NOT_FOUND
                      /\ inflight' = Suspend(t)
                /\ UNCHANGED <<Stores, adminNotifs>>
     /\ \A t \in Suspended, ok \in BOOLEAN :
          (t.h = "ack" /\ t.text = NOT_FOUND /\ AckDone(t, ok))
             => /\ inflight' = Resume(t)
                /\ UNCHANGED <<Stores, adminNotifs>>]_vars

\* a "not found" acknowledgment is in flight while records and timers exist
C6_Witness ==
  /\ \E t \in Suspended : t.h = "ack" /\ t.text = NOT_FOUND
  /\ submissions # EmptyMap
  /\ timers # EmptyMap

\* C7: a message waiting for its deletion has exactly one live timeout, the
\* registered one; the deletion is requested by that timeout only, not
\* before the delay has passed since it was scheduled, and after the
\* request nothing is left under the key that could request it again.
C7_DeletedOnceAfterDelay ==
  /\ [](\A k \in ephemeral :
           /\ MapHas(scheduledDeletions, k)
           /\ LiveWithKey(k) = {scheduledDeletions[k]}
           /\ timers[scheduledDeletions[k]].kind = "timeout")
  /\ [][\A id \in DOMAIN timers, ok \in BOOLEAN :
           DeleteFire(id, ok)
              => /\ now >= timers[id].setAt + DELETE_DELAY_MS
                 /\ timers[id].key \in ephemeral
                 /\ LiveWithKey(timers[id].key) = {id}
                 /\ timers[id].key \notin ephemeral'
                 /\ \A x \in DOMAIN timers' :
                       timers'[x].key # timers[id].key]_vars

\* a deletion was scheduled twice under one key and has been requested
C7_Witness ==
  /\ superseded # EmptyMap
  /\ \A id \in DOMAIN superseded : superseded[id] \in DeleteKeys
  /\ ephemeral = {}
  /\ timers = EmptyMap
  /\ now >= DELETE_DELAY_MS

\* C8: when the acknowledgment of a decision on a found submission has
\* settled, the confirmation to the reviewer is sent.
C8_OneConfirmationPerDecision ==
  [][\A t \in Suspended, ok \in BOOLEAN :
        (t.h = "ack" /\ t.found /\ AckDone(t, ok))
           => \E r \in BagToSet(inflight') :
                 /\ r.h = "reply"
                 /\ r.chatId = ADMIN_CHAT_ID
                 /\ inflight' = Resume(t) (+) SetToBag({r})]_vars

\* C9: an intake with a code stores a record with the code and the contact
\* string the directory holds for the user at that moment ("Unknown phone"
\* without an entry or a user), sends the notification with the code and
\* leaves a registered presence loop for the user; a text message changes
\* no stored record.
C9_IntakeRecord ==
  [][/\ \A c \in {CODE_A, CODE_B}, u \in TgUsers :
          LogCode(c, u)
             => LET uid == UserIdOf(u)
                    sid == SubmissionId(uid, now)
                    phone == IF uid # NULL /\ uid \in DOMAIN userPhones
                             THEN userPhones[uid] ELSE UNKNOWN_PHONE
                    key == TypingKey(uid)
                IN /\ MapHas(submissions', sid)
                   /\ submissions'[sid].code = c
                   /\ submissions'[sid].userId = uid
                   /\ submissions'[sid].telegramPhone = phone
                   /\ [submissionId |-> sid, code |-> c] \in adminNotifs'
                   /\ uid # NULL
                        => /\ MapHas(scheduledDeletions', key)
                           /\ MapHas(timers', scheduledDeletions'[key])
                           /\ timers'[scheduledDeletions'[key]].kind = "interval"
                           /\ timers'[scheduledDeletions'[key]].userId = uid
     /\ \A f \in FromIds, t \in Texts :
          BotText(f, t) => submissions' = submissions]_vars

\* a record holds the number the user had at intake, the directory a later one
C9_Witness ==
  \E s \in DOMAIN submissions :
     /\ submissions[s].userId = "1"
     /\ submissions[s].telegramPhone = PHONE_PLUS
     /\ MapHas(userPhones, "1")
     /\ userPhones["1"] = PHONE_DIGITS
     /\ LoopsOf("1") # {}
     /\ \E n \in adminNotifs : n.submissionId = s

C11_FailureIsolated ==
  [][\A id \in DOMAIN timers :
        /\ TypingTick(id, FALSE)
              => /\ MapHas(timers', id)
                 /\ timers'[id].kind = "interval"
                 /\ timers'[id].due = now + TYPING_INTERVAL_MS
                 /\ scheduledDeletions' = scheduledDeletions
                 /\ \A x \in DOMAIN timers \ {id} :
                       MapHas(timers', x) /\ timers'[x] = timers[x]
        /\ DeleteFire(id, FALSE)
              => /\ \A k \in DOMAIN scheduledDeletions \ {timers[id].key} :
                       /\ MapHas(scheduledDeletions', k)
                       /\ scheduledDeletions'[k] = scheduledDeletions[k]
                 /\ \A x \in DOMAIN timers \ {id} :
                       MapHas(timers', x) /\ timers'[x] = timers[x]]_vars

\* a tick of a loop has failed; the loop and another key's timer are live
C11_Witness ==
  \E id \in DOMAIN timers :
     /\ timers[id].kind = "interval"
     /\ timers[id].key \in failed
     /\ timers[id].due > now
     /\ scheduledDeletions[timers[id].key] = id
     /\ \E x \in DOMAIN timers : x # id

\* the user ids stopTypingLoop is called with: String(tgUser.id), or null
\* from a record of a request without a user
StopArgs == {UserIdOf(u) : u \in TgUsers}

\* C12: stopTypingLoop for a user without a registered loop returns the
\* registry and the timers as they are, and stopping twice in a row gives
\* what stopping once gives.
C12_StopIdempotent ==
  \A u \in StopArgs :
     /\ ~MapHas(scheduledDeletions, TypingKey(u))
           => stopTypingLoop(Registry, u) = Registry
     /\ stopTypingLoop(stopTypingLoop(Registry, u), u)
           = stopTypingLoop(Registry, u)

\* two decisions on the only record are in flight: the second one called
\* stopTypingLoop for a user whose loop the first had stopped
C12_Witness ==
  /\ Cardinality(DOMAIN submissions) = 1
  /\ \E t \in Suspended :
        t.h = "ack" /\ t.found /\ CopiesIn(t, inflight) = 2
  /\ \A s \in DOMAIN submissions :
        /\ submissions[s].userId # NULL
        /\ ~MapHas(scheduledDeletions, TypingKey(submissions[s].userId))

\* C13: an intake whose submission id is already stored does not fail: it
\* replaces the record under that id by its own, adds no id, keeps the
\* earlier notifications and sends one more with the same id; a decision on
\* that id then acts on the user of the record now stored.
C13_CollisionOverwrites ==
  [][/\ \A c \in {CODE_A, CODE_B}, u \in TgUsers :
          LET uid == UserIdOf(u)
              sid == SubmissionId(uid, now)
          IN (MapHas(submissions, sid) /\ LogCode(c, u))
                => /\ DOMAIN submissions' = DOMAIN submissions
                   /\ submissions'[sid] =
                         [userId |-> uid, code |-> c,
                          telegramPhone |-> PhoneFor(userPhones, uid),
                          username |-> NameOr(u, "username"),
                          firstName |-> NameOr(u, "first_name")]
                   /\ \A x \in DOMAIN submissions \ {sid} :
                         submissions'[x] = submissions[x]
                   /\ adminNotifs' =
                         adminNotifs \cup {[submissionId |-> sid, code |-> c]}
                   /\ res' = 0
                   /\ \E t \in BagToSet(inflight') :
                         t.h = "intake" /\ inflight' = Suspend(t)
     /\ \A a \in Actions, n \in adminNotifs :
          Decision(a, n.submissionId)
             => /\ MapHas(submissions, n.submissionId)
                /\ SetRegistry(stopTypingLoop(Registry,
                                  submissions[n.submissionId].userId))]_vars

\* two notifications with different codes carry one id, and the record
\* under that id holds one of the two codes
C13_Witness ==
  \E n1, n2 \in adminNotifs :
     /\ n1.submissionId = n2.submissionId
     /\ n1.code # n2.code
     /\ MapHas(submissions, n1.submissionId)
     /\ submissions[n1.submissionId].code = n2.code

\* C14: a text message is a phone number exactly when, trimmed, it starts
\* with "+" or holds at least ten digits; a phone number replaces the
\* sender's directory entry by the trimmed text and is answered "Phone
\* saved", anything else leaves the directory as it is and is answered
\* "Code received".
C14_PhoneClassification ==
  [][\A f \in FromIds, lead \in 0..1, plus \in BOOLEAN, nd \in DigitCounts,
        sep \in BOOLEAN, trail \in 0..1 :
        BotText(f, GenText(lead, plus, nd, sep, trail))
           => LET trimmed == GenText(0, plus, nd, sep, 0)
                             \o (IF trail = 0 THEN <<>> ELSE <<"x">>)
                  phone == plus \/ nd >= 10
              IN /\ userPhones' =
                      IF phone
                      THEN [x \in DOMAIN userPhones \cup {ToString(f)} |->
                              IF x = ToString(f) THEN trimmed
                              ELSE userPhones[x]]
                      ELSE userPhones
                 /\ \E t \in BagToSet(inflight') :
                       /\ t.h = "reply"
                       /\ t.text = IF phone THEN "Phone saved"
                                   ELSE "Code received"
                       /\ inflight' = Suspend(t)]_vars

\* the directory holds a ten-digit number with separators, trimmed, and a
\* later nine-digit text was answered "Code received"
C14_Witness ==
  /\ MapHas(userPhones, "1")
  /\ userPhones["1"] = GenText(0, FALSE, 10, TRUE, 0) \o <<"x">>
  /\ \E t \in Suspended : t.h = "reply" /\ t.text = "Code received"

\* the call a suspended handler awaits was initiated in this step
Initiated(t) == CopiesIn(t, inflight') > CopiesIn(t, inflight)

\* C15: when the intake initiates the notification send, the record is
\* stored and the user's loop is registered and live; when a decision
\* initiates its acknowledgment, the user's loop is gone; every
\* notification has its record, so a decision on a notification's id finds
\* one.
C15_MutationBeforeIO ==
  /\ [](\A n \in adminNotifs : MapHas(submissions, n.submissionId))
  /\ [][/\ \A t \in BagToSet(inflight') :
             (t.h = "intake" /\ Initiated(t))
                => \E u \in TgUsers :
                      LET uid == UserIdOf(u)
                          sid == SubmissionId(uid, now)
                          key == TypingKey(uid)
                      IN /\ MapHas(submissions', sid)
                         /\ submissions'[sid].userId = uid
                         /\ \E n \in adminNotifs' : n.submissionId = sid
                         /\ uid # NULL
                              => /\ MapHas(scheduledDeletions', key)
                                 /\ MapHas(timers', scheduledDeletions'[key])
        /\ \A t \in BagToSet(inflight') :
             (t.h = "ack" /\ t.found /\ Initiated(t))
                => \E s \in DOMAIN submissions :
                      LET uid == submissions[s].userId
                      IN /\ s \in decided'
                         /\ ~MapHas(scheduledDeletions', TypingKey(uid))
                         /\ \A x \in DOMAIN timers' :
                               timers'[x].kind = "interval"
                                  => timers'[x].userId # uid
        /\ \A a \in Actions, n \in adminNotifs :
             Decision(a, n.submissionId)
                => \E t \in BagToSet(inflight') :
                      t.h = "ack" /\ t.found /\ Initiated(t)]_vars

\* a decision on a notification ran while the intake that sent it is
\* still suspended on the send
C15_Witness ==
  /\ \E t \in Suspended : t.h = "intake"
  /\ \E t \in Suspended : t.h = "ack" /\ t.found
  /\ Cardinality(DOMAIN submissions) = 1
  /\ decided = DOMAIN submissions

\* C16: a user with an identifier who has a submission that no decision has
\* found since its intake has a live presence loop.
C16_PresenceWhilePending ==
  \A s \in DOMAIN submissions :
     (s \notin decided /\ submissions[s].userId # NULL)
        => LoopsOf(submissions[s].userId) # {}

\* C17: no segment of a decision handler (the lookup, the continuation after
\* the acknowledgment, the continuation after the confirmation) changes the
\* submission store or the phone directory, and no step of the program
\* removes a submission id.
C17_DecisionKeepsStores ==
  [][/\ \A a \in Actions, s \in ClickableIds :
          Decision(a, s) => UNCHANGED <<submissions, userPhones>>
     /\ \A t \in Suspended, ok \in BOOLEAN :
          AckDone(t, ok) => UNCHANGED <<submissions, userPhones>>
     /\ \A t \in Suspended, ok \in BOOLEAN, m \in MessageIds :
          (t.chatId = ADMIN_CHAT_ID /\ ReplyDone(t, ok, m))
             => UNCHANGED <<submissions, userPhones>>
     /\ DOMAIN submissions \subseteq DOMAIN submissions']_vars

\* a decision has run to its end, the confirmation's expiry is registered,
\* and the decided record is still stored
C17_Witness ==
  /\ MapHas(scheduledDeletions, DeleteKey(ADMIN_CHAT_ID, 101))
  /\ decided # {}
  /\ \A s \in decided : MapHas(submissions, s)

\* C18: the registry and the live timers agree: every registered key has
\* exactly one live timer, the registered one; every live timer is the one
\* registered under its key; a timeout that fires takes its key out of the
\* registry.
C18_RegistryMatchesTimers ==
  /\ [](/\ \A k \in DOMAIN scheduledDeletions :
              LiveWithKey(k) = {scheduledDeletions[k]}
        /\ \A id \in DOMAIN timers :
              /\ MapHas(scheduledDeletions, timers[id].key)
              /\ scheduledDeletions[timers[id].key] = id)
  /\ [][\A id \in DOMAIN timers, ok \in BOOLEAN :
           DeleteFire(id, ok)
              => /\ ~MapHas(scheduledDeletions', timers[id].key)
                 /\ DOMAIN scheduledDeletions' =
                       DOMAIN scheduledDeletions \ {timers[id].key}]_vars

\* a timeout has fired and its key is gone while a presence loop is
\* registered and live
C18_Witness ==
  /\ \E k \in DeleteKeys :
        k \in failed /\ ~MapHas(scheduledDeletions, k) /\ LiveWithKey(k) = {}
  /\ \E id \in DOMAIN timers :
        timers[id].kind = "interval" /\ scheduledDeletions[timers[id].key] = id

\* C19: with a reviewer who decides every notification that reaches them,
\* a live presence loop of a user is eventually followed by a state where
\* the user has no loop.
C19_LoopEventuallyStopped ==
  \A u \in {UserIdOf(x) : x \in TgUsers} \ {NULL} :
     (LoopsOf(u) # {}) ~> (LoopsOf(u) = {})

====
